---------------------------- MODULE Spec2Model ----------------------------
(***************************************************************************)
(* Account tree and entity index of the Account Summaries sample           *)
(* (account-summaries/account_index.js).                                   *)
(*                                                                         *)
(* buildAccountTreeIndex turns the response (accounts holding properties   *)
(* holding profiles) into accountTree, a nested object keyed by id at each *)
(* level, and entityIndex, a flat object from prefix + child id to the id  *)
(* of an ancestor.  Six functions read the two objects.                    *)
(*                                                                         *)
(* A JavaScript object is a function from its keys (strings) to values;    *)
(* a field that is absent is a key outside the DOMAIN.  The result of an   *)
(* expression is a tagged value: an object, undefined, or a thrown         *)
(* TypeError.  Identifiers are non-empty strings that are not attribute    *)
(* names; '' is what _getEntityId returns for "no id".                     *)
(***************************************************************************)
EXTENDS Integers, Sequences, FiniteSets, TLC

\* Total number of records (accounts + properties + profiles) the responses
\* of one behaviour may hold; a response delivered again is not counted twice.
MaxEntities == 4

\* Identifiers used by the responses, the same strings for the three kinds,
\* and one identifier that no response holds.
Ids == {"1", "2"}
UnknownId == "9"
QueryIds == Ids \cup {UnknownId}

AccountKind == "account"
PropertyKind == "webproperty"
ProfileKind == "profile"

----------------------------------------------------------------------------
\* Entity prefixes for the index.
\* (variant: the account prefix mistyped as the property prefix)
ACCOUNT_PREFIX_p == "p"
ACCOUNT_PREFIX == "a"
PROPERTY_PREFIX == "p"
PROFILE_PREFIX == "v"

----------------------------------------------------------------------------
\* JavaScript values.
EmptyObject == [k \in {} |-> k]
Obj(o) == [type |-> "object", value |-> o]
Undefined == [type |-> "undefined"]
TypeError == [type |-> "TypeError"]

\* if (v): an object, even an empty one, is truthy; undefined is not.
Truthy(v) == v.type = "object"

\* v[k]: the value under k, undefined when the object has no such key, a
\* TypeError when v is undefined.
Member(v, k) ==
  IF v.type = "object"
    THEN IF k \in DOMAIN v.value THEN Obj(v.value[k]) ELSE Undefined
    ELSE TypeError

\* obj[k] = v
SetKey(obj, k, v) == (k :> v) @@ obj

----------------------------------------------------------------------------
\* The responses, by number of records.
Profiles == [id : Ids, kind : {ProfileKind}]

ProfileSeqs == [n \in 0..MaxEntities |-> [1..n -> Profiles]]

PropertiesOfSize ==
  [s \in 1..MaxEntities |->
     (IF s = 1 THEN [id : Ids, kind : {PropertyKind}] ELSE {})
     \cup [id : Ids, kind : {PropertyKind}, profiles : ProfileSeqs[s - 1]]]

PropertySeqs[t \in 0..MaxEntities] ==
  IF t = 0 THEN {<<>>}
  ELSE UNION {{<<p>> \o rest : p \in PropertiesOfSize[s],
                               rest \in PropertySeqs[t - s]} : s \in 1..t}

AccountsOfSize ==
  [n \in 1..MaxEntities |->
     (IF n = 1 THEN [id : Ids, kind : {AccountKind}] ELSE {})
     \cup [id : Ids, kind : {AccountKind}, webProperties : PropertySeqs[n - 1]]]

AccountSeqs[t \in 0..MaxEntities] ==
  IF t = 0 THEN {<<>>}
  ELSE UNION {{<<a>> \o rest : a \in AccountsOfSize[n],
                               rest \in AccountSeqs[t - n]} : n \in 1..t}

ResponsesOfSize == [n \in 0..MaxEntities |-> [items : AccountSeqs[n]]]

RECURSIVE PropertiesSize(_)
PropertiesSize(properties) ==
  IF properties = <<>> THEN 0
  ELSE 1 + (IF "profiles" \in DOMAIN Head(properties)
              THEN Len(Head(properties).profiles) ELSE 0)
         + PropertiesSize(Tail(properties))

RECURSIVE AccountsSize(_)
AccountsSize(accounts) ==
  IF accounts = <<>> THEN 0
  ELSE 1 + (IF "webProperties" \in DOMAIN Head(accounts)
              THEN PropertiesSize(Head(accounts).webProperties) ELSE 0)
         + AccountsSize(Tail(accounts))

Size(r) == AccountsSize(r.items)

----------------------------------------------------------------------------
VARIABLES
  accountTree,   \* var accountTree
  entityIndex,   \* var entityIndex
  response,      \* the argument of the last buildAccountTreeIndex call
  op,            \* the function called last
  arg,           \* the id it was called with (lookups)
  ret,           \* what it returned, or TypeError when it threw
  ingested,      \* records delivered so far (bounds the behaviour)
  inserted,      \* history: ids written into the tree by the builds, by kind
  replaced,      \* history: a record in the tree was overwritten by a different one
  again          \* history: the last step was a build given the response of the one before

vars == <<accountTree, entityIndex, response, op, arg, ret, ingested,
          inserted, replaced, again>>

----------------------------------------------------------------------------
\* The attributes of a record of the response, as opposed to the children
\* that the build hangs under their ids.
AttributeNames == {"id", "kind", "webProperties", "profiles"}
Attributes(obj) == [k \in DOMAIN obj \cap AttributeNames |-> obj[k]]

\* accountTree[account.id] = account;
InsertAccount(tree, account) == SetKey(tree, account.id, account)

\* accountTree[account.id][property.id] = property;
InsertProperty(tree, account, property) ==
  SetKey(tree, account.id, SetKey(tree[account.id], property.id, property))

\* (variant: the property's own id stored instead of the account's)
IndexProperty_ownId(index, account, property) ==
  SetKey(index, ACCOUNT_PREFIX \o PROPERTY_PREFIX \o property.id, property.id)

\* (variant: += instead of =, the id appended to the entry already there)
IndexProperty_append(index, account, property) ==
  LET key == ACCOUNT_PREFIX \o PROPERTY_PREFIX \o property.id
  IN  SetKey(index, key,
             IF key \in DOMAIN index THEN index[key] \o account.id
                                     ELSE account.id)

\* entityIndex[ACCOUNT_PREFIX + PROPERTY_PREFIX + property.id] = account.id;
IndexProperty(index, account, property) ==
  SetKey(index, ACCOUNT_PREFIX \o PROPERTY_PREFIX \o property.id, account.id)

\* (variant: the profile hung under the account, the property level dropped)
InsertProfile_underAccount(tree, account, property, profile) ==
  SetKey(tree, account.id, SetKey(tree[account.id], profile.id, profile))

\* accountTree[account.id][property.id][profile.id] = profile;
InsertProfile(tree, account, property, profile) ==
  SetKey(tree, account.id,
         SetKey(tree[account.id], property.id,
                SetKey(tree[account.id][property.id], profile.id, profile)))

\* (variant: the second assignment copied from the first, account.id twice)
IndexProfile_accountTwice(index, account, property, profile) ==
  SetKey(SetKey(index, ACCOUNT_PREFIX \o PROFILE_PREFIX \o profile.id,
                account.id),
         PROPERTY_PREFIX \o PROFILE_PREFIX \o profile.id, account.id)

\* entityIndex[ACCOUNT_PREFIX + PROFILE_PREFIX + profile.id] = account.id;
\* entityIndex[PROPERTY_PREFIX + PROFILE_PREFIX + profile.id] = property.id;
IndexProfile(index, account, property, profile) ==
  SetKey(SetKey(index, ACCOUNT_PREFIX \o PROFILE_PREFIX \o profile.id,
                account.id),
         PROPERTY_PREFIX \o PROFILE_PREFIX \o profile.id, property.id)

\* The three loops of buildAccountTreeIndex over st = the two objects, whether
\* the call has thrown, and the history.  A loop ends at the first index
\* past the array (the element is undefined); sequences count from 1.

\* for (var p = 0, profile; profile = property.profiles[p]; ++p)
RECURSIVE ProfileLoop(_, _, _, _)
ProfileLoop(st, account, property, p) ==
  IF p > Len(property.profiles) THEN st
  ELSE LET profile == property.profiles[p]
       IN  ProfileLoop(
             [st EXCEPT
                !.tree = InsertProfile(@, account, property, profile),
                !.index = IndexProfile(@, account, property, profile),
                !.inserted.v = @ \cup {profile.id}],
             account, property, p + 1)

\* if (property.profiles): an array is truthy, also an empty one; only a
\* property without the field is left out.
HasProfiles(property) == "profiles" \in DOMAIN property

\* for (var w = 0, property; property = account.webProperties[w]; ++w)
RECURSIVE PropertyLoop(_, _, _)
PropertyLoop(st, account, w) ==
  IF w > Len(account.webProperties) THEN st
  ELSE LET property == account.webProperties[w]
       IN  IF HasProfiles(property)
             THEN PropertyLoop(
                    ProfileLoop(
                      [st EXCEPT
                         !.tree = InsertProperty(@, account, property),
                         !.index = IndexProperty(@, account, property),
                         !.inserted.p = @ \cup {property.id},
                         !.replaced = @ \/
                            (/\ property.id \in DOMAIN st.tree[account.id]
                             /\ Attributes(st.tree[account.id][property.id])
                                  # property)],
                      account, property, 1),
                    account, w + 1)
             ELSE PropertyLoop(st, account, w + 1)

\* account.webProperties[w] with webProperties absent reads an index of
\* undefined: a TypeError that ends the call where it stands.
HasWebProperties(account) == "webProperties" \in DOMAIN account

\* for (var i = 0, account; account = accountSummariesResponse.items[i]; ++i)
RECURSIVE AccountLoop(_, _, _)
AccountLoop(st, items, i) ==
  IF i > Len(items) THEN st
  ELSE LET account == items[i]
           st1 == [st EXCEPT
                     !.tree = InsertAccount(@, account),
                     !.inserted.a = @ \cup {account.id},
                     !.replaced = @ \/
                        (/\ account.id \in DOMAIN st.tree
                         /\ Attributes(st.tree[account.id]) # account)]
       IN  IF HasWebProperties(account)
             THEN AccountLoop(PropertyLoop(st1, account, 1), items, i + 1)
             ELSE [st1 EXCEPT !.threw = TRUE]

BuildResult(r) ==
  AccountLoop([tree |-> accountTree, index |-> entityIndex, threw |-> FALSE,
               inserted |-> inserted, replaced |-> replaced], r.items, 1)

\* function buildAccountTreeIndex(accountSummariesResponse)
buildAccountTreeIndex(r) ==
  /\ r = response \/ ingested + Size(r) <= MaxEntities
  /\ LET st == BuildResult(r)
     IN  /\ accountTree' = st.tree
         /\ entityIndex' = st.index
         /\ inserted' = st.inserted
         /\ replaced' = st.replaced
         /\ ret' = IF st.threw THEN TypeError ELSE Undefined
  /\ response' = r
  /\ again' = (r = response)
  /\ ingested' = IF r = response THEN ingested ELSE ingested + Size(r)
  /\ op' = "buildAccountTreeIndex"
  /\ arg' = ""

----------------------------------------------------------------------------
\* The lookups.

\* function _getEntityId(indexKey)
_getEntityId(indexKey) ==
  IF indexKey \in DOMAIN entityIndex /\ entityIndex[indexKey] # ""
    THEN entityIndex[indexKey]
    ELSE ""

\* function getAccount(accountId)
getAccount(accountId) ==
  IF accountId \in DOMAIN accountTree
    THEN Obj(accountTree[accountId])
    ELSE Obj(EmptyObject)

\* (variant: return accountTree[accountId][propertyId], without the test)
_getProperty_unguarded(accountId, propertyId) ==
  Member(Member(Obj(accountTree), accountId), propertyId)

\* function _getProperty(accountId, propertyId)
_getProperty(accountId, propertyId) ==
  IF /\ accountId \in DOMAIN accountTree
     /\ propertyId \in DOMAIN accountTree[accountId]
    THEN Obj(accountTree[accountId][propertyId])
    ELSE Obj(EmptyObject)

\* function getAccountByPropertyId(propertyId)
getAccountByPropertyId(propertyId) ==
  LET indexKey == ACCOUNT_PREFIX \o PROPERTY_PREFIX \o propertyId
      accountId == _getEntityId(indexKey)
  IN  getAccount(accountId)

\* function getAccountByProfileId(profileId)
getAccountByProfileId(profileId) ==
  LET indexKey == ACCOUNT_PREFIX \o PROFILE_PREFIX \o profileId
      accountId == _getEntityId(indexKey)
  IN  getAccount(accountId)

\* function getPropertyByProfileId(profileId)
getPropertyByProfileId(profileId) ==
  LET accountIndexKey == ACCOUNT_PREFIX \o PROFILE_PREFIX \o profileId
      propertyIndexKey == PROPERTY_PREFIX \o PROFILE_PREFIX \o profileId
      accountId == _getEntityId(accountIndexKey)
      propertyId == _getEntityId(propertyIndexKey)
  IN  _getProperty(accountId, propertyId)

\* function getProperty(propertyId)
getProperty(propertyId) ==
  LET account == getAccountByPropertyId(propertyId)
  IN  IF Truthy(account) THEN Member(account, propertyId) ELSE Obj(EmptyObject)

\* function getProfile(profileId)
getProfile(profileId) ==
  LET property == getPropertyByProfileId(profileId)
  IN  IF Truthy(property) THEN Member(property, profileId) ELSE Obj(EmptyObject)

\* A call of a lookup: the result is recorded, nothing else is assigned.
Returns(name, id, value) ==
  /\ op' = name
  /\ arg' = id
  /\ ret' = value
  /\ again' = FALSE
  /\ UNCHANGED <<accountTree, entityIndex, response, ingested, inserted,
                 replaced>>

\* (variant: getAccount creating the entry it did not find)
Call_getAccount_creating(id) ==
  /\ op' = "getAccount"
  /\ arg' = id
  /\ ret' = getAccount(id)
  /\ accountTree' = IF id \in DOMAIN accountTree THEN accountTree
                    ELSE SetKey(accountTree, id, EmptyObject)
  /\ again' = FALSE
  /\ UNCHANGED <<entityIndex, response, ingested, inserted, replaced>>

Call_getAccount(id) == Returns("getAccount", id, getAccount(id))
Call_getProperty(id) == Returns("getProperty", id, getProperty(id))
Call_getProfile(id) == Returns("getProfile", id, getProfile(id))
Call_getAccountByPropertyId(id) ==
  Returns("getAccountByPropertyId", id, getAccountByPropertyId(id))
Call_getAccountByProfileId(id) ==
  Returns("getAccountByProfileId", id, getAccountByProfileId(id))
Call_getPropertyByProfileId(id) ==
  Returns("getPropertyByProfileId", id, getPropertyByProfileId(id))

----------------------------------------------------------------------------
Init ==
  /\ accountTree = EmptyObject
  /\ entityIndex = EmptyObject
  /\ response = [items |-> <<>>]
  /\ op = "none"
  /\ arg = ""
  /\ ret = Undefined
  /\ ingested = 0
  /\ inserted = [a |-> {}, p |-> {}, v |-> {}]
  /\ replaced = FALSE
  /\ again = FALSE

\* The responses that can still be delivered: the last one again, or one
\* that fits in what is left of MaxEntities.
Deliverable ==
  {response} \cup UNION {ResponsesOfSize[n] : n \in 0..(MaxEntities - ingested)}

Next ==
  \/ \E r \in Deliverable : buildAccountTreeIndex(r)
  \/ \E id \in QueryIds : Call_getAccount(id)
  \/ \E id \in QueryIds : Call_getProperty(id)
  \/ \E id \in QueryIds : Call_getProfile(id)
  \/ \E id \in QueryIds : Call_getAccountByPropertyId(id)
  \/ \E id \in QueryIds : Call_getAccountByProfileId(id)
  \/ \E id \in QueryIds : Call_getPropertyByProfileId(id)

Spec == Init /\ [][Next]_vars

----------------------------------------------------------------------------
\* The records of a response, by position.
AccountPos(r) == DOMAIN r.items

PropertyPos(r) ==
  UNION {{<<i, w>> : w \in DOMAIN r.items[i].webProperties} :
           i \in {j \in DOMAIN r.items : HasWebProperties(r.items[j])}}

ProfilePos(r) ==
  UNION {{<<x[1], x[2], p>> :
            p \in DOMAIN r.items[x[1]].webProperties[x[2]].profiles} :
           x \in {y \in PropertyPos(r) :
                    HasProfiles(r.items[y[1]].webProperties[y[2]])}}

AccountAt(r, x) == r.items[x[1]]
PropertyAt(r, x) == r.items[x[1]].webProperties[x[2]]
ProfileAt(r, x) == r.items[x[1]].webProperties[x[2]].profiles[x[3]]

\* Identifiers are unique within their own kind.
UniqueWithinKind(r) ==
  /\ \A x, y \in AccountPos(r) : r.items[x].id = r.items[y].id => x = y
  /\ \A x, y \in PropertyPos(r) :
        PropertyAt(r, x).id = PropertyAt(r, y).id => x = y
  /\ \A x, y \in ProfilePos(r) :
        ProfileAt(r, x).id = ProfileAt(r, y).id => x = y

\* A property with at least one profile.
Profiled(property) == HasProfiles(property) /\ Len(property.profiles) >= 1

\* The last call was a build, and it returned.
Built == op = "buildAccountTreeIndex"
Completed == Built /\ ret.type # "TypeError"

\* v is the object of the record rec: it carries rec's attributes.
IsRecord(v, rec) == v.type = "object" /\ Attributes(v.value) = rec

\* v is a record with content, as opposed to {} and undefined.
Populated(v) == v.type = "object" /\ v.value # EmptyObject

LookupOps == {"getAccount", "getProperty", "getProfile",
              "getAccountByPropertyId", "getAccountByProfileId",
              "getPropertyByProfileId"}

\* The ids of the kind a lookup takes that the builds have inserted.
InsertedFor(name) ==
  IF name = "getAccount" THEN inserted.a
  ELSE IF name \in {"getProperty", "getAccountByPropertyId"} THEN inserted.p
  ELSE inserted.v

Lookups(id) ==
  <<getAccount(id), getProperty(id), getProfile(id),
    getAccountByPropertyId(id), getAccountByProfileId(id),
    getPropertyByProfileId(id)>>

IdsIn(r) ==
  {r.items[x].id : x \in AccountPos(r)}
  \cup {PropertyAt(r, x).id : x \in PropertyPos(r)}
  \cup {ProfileAt(r, x).id : x \in ProfilePos(r)}

----------------------------------------------------------------------------
\* C1: after a build that returned, of a response whose identifiers are
\* unique within their kind, getAccountByPropertyId(P.id) is the record of
\* the account A that holds P, for every property P with at least one profile.
C1_AccountOfProperty ==
  (Completed /\ UniqueWithinKind(response)) =>
    \A x \in PropertyPos(response) :
      Profiled(PropertyAt(response, x)) =>
        IsRecord(getAccountByPropertyId(PropertyAt(response, x).id),
                 AccountAt(response, x))

\* Two accounts were built, one of them with a profiled property.
C1_Witness ==
  /\ Completed
  /\ UniqueWithinKind(response)
  /\ Len(response.items) = 2
  /\ \E x \in PropertyPos(response) :
        /\ Profiled(PropertyAt(response, x))
        /\ PropertyAt(response, x).id # AccountAt(response, x).id

\* C2: after such a build, for every profile V of a property P of an account
\* A, getAccountByProfileId(V.id) is the record of A and
\* getPropertyByProfileId(V.id) is the record of P.
C2_AncestorsOfProfile ==
  (Completed /\ UniqueWithinKind(response)) =>
    \A x \in ProfilePos(response) :
      /\ IsRecord(getAccountByProfileId(ProfileAt(response, x).id),
                  AccountAt(response, x))
      /\ IsRecord(getPropertyByProfileId(ProfileAt(response, x).id),
                  PropertyAt(response, x))

\* A property with two profiles was built, under an account with another id.
C2_Witness ==
  /\ Completed
  /\ UniqueWithinKind(response)
  /\ \E x \in PropertyPos(response) :
        /\ HasProfiles(PropertyAt(response, x))
        /\ Len(PropertyAt(response, x).profiles) = 2
        /\ PropertyAt(response, x).id # AccountAt(response, x).id

\* C3: skip rule.  After the first build, a property whose profiles are absent
\* or an empty sequence is not in the tree, has no entry in the index, and
\* getProperty and getAccountByPropertyId of its id return nothing populated.
C3_SkipRule ==
  (Completed /\ UniqueWithinKind(response) /\ ingested = Size(response)) =>
    \A x \in PropertyPos(response) :
      LET A == AccountAt(response, x)
          P == PropertyAt(response, x)
      IN  ~Profiled(P) =>
            /\ P.id \notin DOMAIN accountTree[A.id]
            /\ ("ap" \o P.id) \notin DOMAIN entityIndex
            /\ ~Populated(getProperty(P.id))
            /\ ~Populated(getAccountByPropertyId(P.id))

C5_PartialInput ==
  (Built /\ \E i \in AccountPos(response) :
               ~HasWebProperties(response.items[i])) =>
    /\ ret.type # "TypeError"
    /\ \A i \in AccountPos(response) :
          IsRecord(getAccount(response.items[i].id), response.items[i])
             \/ \E j \in AccountPos(response) :
                   j > i /\ response.items[j].id = response.items[i].id

\* C6: a build given the response of the build before leaves the results of
\* the six lookups as they were, for every id of the response.
C6_Idempotent ==
  [][(op' = "buildAccountTreeIndex" /\ response' = response) =>
       \A id \in IdsIn(response) : Lookups(id)' = Lookups(id)]_vars

\* A response with a profile has been built twice in a row.
C6_Witness ==
  /\ Built
  /\ again
  /\ ProfilePos(response) # {}

\* C7: getProperty and getProfile of an id that is not found return {}.
C7_EmptyObjectOnMiss ==
  (op \in {"getProperty", "getProfile"} /\ arg \notin InsertedFor(op)) =>
    ret = Obj(EmptyObject)

\* C8: a step that is not a build leaves accountTree and entityIndex as they
\* are.
C8_LookupsPure ==
  [][op' # "buildAccountTreeIndex" =>
       UNCHANGED <<accountTree, entityIndex>>]_vars

\* A lookup has returned a record of a tree that holds profiles.
C8_Witness ==
  /\ op = "getProfile"
  /\ Populated(ret)
  /\ arg \in inserted.v

\* An id of the response that two kinds share.
Shared(r, id) ==
  Cardinality({k \in {"a", "p", "v"} :
     \/ k = "a" /\ \E x \in AccountPos(r) : r.items[x].id = id
     \/ k = "p" /\ \E x \in PropertyPos(r) : PropertyAt(r, x).id = id
     \/ k = "v" /\ \E x \in ProfilePos(r) : ProfileAt(r, x).id = id}) >= 2

\* C9: after a build of a response whose ids are unique within their kind,
\* for an id that two or three kinds share, the index holds the three
\* relations under 'ap', 'av' and 'pv' + id, and getAccount, getProperty and
\* getProfile of the id each return the record of their own kind.
C9_CrossKindCollisions ==
  (Completed /\ UniqueWithinKind(response)) =>
    /\ \A x \in AccountPos(response) :
          Shared(response, response.items[x].id) =>
            IsRecord(getAccount(response.items[x].id), response.items[x])
    /\ \A x \in PropertyPos(response) :
          LET P == PropertyAt(response, x)
          IN  (Shared(response, P.id) /\ Profiled(P)) =>
                /\ IsRecord(getProperty(P.id), P)
                /\ ("ap" \o P.id) \in DOMAIN entityIndex
                /\ entityIndex["ap" \o P.id] = AccountAt(response, x).id
    /\ \A x \in ProfilePos(response) :
          LET V == ProfileAt(response, x)
          IN  Shared(response, V.id) =>
                /\ IsRecord(getProfile(V.id), V)
                /\ ("av" \o V.id) \in DOMAIN entityIndex
                /\ entityIndex["av" \o V.id] = AccountAt(response, x).id
                /\ ("pv" \o V.id) \in DOMAIN entityIndex
                /\ entityIndex["pv" \o V.id] = PropertyAt(response, x).id

\* An account, a property of another account and a profile share an id.
C9_Witness ==
  /\ Completed
  /\ UniqueWithinKind(response)
  /\ \E x \in ProfilePos(response) :
        /\ ProfileAt(response, x).id = AccountAt(response, x).id
        /\ ProfileAt(response, x).id # PropertyAt(response, x).id

\* Every entry of the index leads to a record of the tree.
ReferentialIntegrity ==
  \A id \in Ids :
    /\ (ACCOUNT_PREFIX \o PROPERTY_PREFIX \o id) \in DOMAIN entityIndex =>
         LET a == entityIndex[ACCOUNT_PREFIX \o PROPERTY_PREFIX \o id]
         IN  /\ a \in DOMAIN accountTree
             /\ id \in DOMAIN accountTree[a]
             /\ accountTree[a][id].id = id
             /\ accountTree[a][id].kind = PropertyKind
    /\ (ACCOUNT_PREFIX \o PROFILE_PREFIX \o id) \in DOMAIN entityIndex =>
         /\ (PROPERTY_PREFIX \o PROFILE_PREFIX \o id) \in DOMAIN entityIndex
         /\ LET a == entityIndex[ACCOUNT_PREFIX \o PROFILE_PREFIX \o id]
                p == entityIndex[PROPERTY_PREFIX \o PROFILE_PREFIX \o id]
            IN  /\ a \in DOMAIN accountTree
                /\ p \in DOMAIN accountTree[a]
                /\ id \in DOMAIN accountTree[a][p]
                /\ accountTree[a][p][id].id = id
                /\ accountTree[a][p][id].kind = ProfileKind

\* C10, as claimed: after any builds, also of account records that share an
\* id, every entry of the index leads to a record of the tree.
C10_NoDanglingEntry == ReferentialIntegrity

\* C10, amended: every entry of the index leads to a record of the tree as
\* long as no build has overwritten an account of the tree, or a property of
\* an account, by a different record with the same id.
C10_IntegrityUnlessReplaced == ~replaced => ReferentialIntegrity

\* Two builds of different responses, nothing replaced, profiles indexed.
C10_Witness ==
  /\ ~replaced
  /\ Built
  /\ ingested > Size(response)
  /\ Size(response) > 0
  /\ inserted.v # {}

============================================================================
